---- MODULE Spec2Model ----
(***************************************************************************)
(* Model of degrees.py: the in-memory store filled by load_data, the name  *)
(* index used by person_id_for_name, neighbors_for_person and the          *)
(* breadth-first search of shortest_path.                                  *)
(***************************************************************************)
EXTENDS Integers, Sequences, FiniteSets, TLC

VARIABLES
    pc,         \* position of the program: which file load_data reads, or the search state
    names,      \* dict: lowercased name -> set of person ids        (degrees.py:10)
    people,     \* dict: person id -> [name, birth, movies]          (degrees.py:13)
    movies,     \* dict: movie id -> [title, year, stars]            (degrees.py:16)
    warned,     \* a stars row was skipped with logging.warning      (degrees.py:61)
    source,     \* argument of shortest_path
    target,     \* argument of shortest_path
    nodes,      \* every Node created by the running call, by handle
    frontier,   \* the QueueFrontier: handles of the queued nodes, oldest first
    explored,   \* the explored set of the running call
    path,       \* the list returned by the call when pc = "found"
    iterations, \* passes through the head of the while loop of the running call
    prev        \* outcome of the previous call with the same arguments

vars == <<pc, names, people, movies, warned, source, target, nodes, frontier,
          explored, path, iterations, prev>>

store == <<names, people, movies>>
search == <<source, target, nodes, frontier, explored, path, iterations, prev>>

-----------------------------------------------------------------------------
(* Bounds and input alphabets *)

NumPeople == 3
NumMovies == 2
MaxNameLen == 1

IdPool == <<"p1", "p2", "p3", "p4", "p5">>
MoviePool == <<"m1", "m2", "m3", "m4">>

PersonIds == {IdPool[i] : i \in 1..NumPeople}
MovieIds == {MoviePool[i] : i \in 1..NumMovies}

Alphabet == {"A", "a", "b"}
Names == UNION {[1..n -> Alphabet] : n \in 1..MaxNameLen}
Births == {"", "1970"}
PlainName == <<"a">>
Title == "title"
Year == "2000"

None == "None"
NoParent == 0
NoOutcome == [kind |-> "none", len |-> 0]
\* the value csv.DictReader gives the name field of a row that has no such field
NoName == <<None>>

-----------------------------------------------------------------------------
(* Python helpers *)

\* str.lower on one character
LowerChar(c) == IF c = "A" THEN "a" ELSE IF c = "B" THEN "b" ELSE c

\* str.lower
Lower(name) == [i \in DOMAIN name |-> LowerChar(name[i])]

\* d[k] = v on a dict
Put(d, k, v) == [x \in DOMAIN d \cup {k} |-> IF x = k THEN v ELSE d[x]]

\* list.reverse
Reverse(s) == [i \in 1..Len(s) |-> s[Len(s) + 1 - i]]

-----------------------------------------------------------------------------
(* load_data *)

Init ==
    /\ pc = "load_people"
    /\ names = <<>>
    /\ people = <<>>
    /\ movies = <<>>
    /\ warned = FALSE
    /\ source = None
    /\ target = None
    /\ nodes = <<>>
    /\ frontier = <<>>
    /\ explored = {}
    /\ path = <<>>
    /\ iterations = 0
    /\ prev = NoOutcome

\* one row of people.csv
LoadPeopleRow(id, name, birth) ==
    /\ pc = "load_people"
    /\ people' = Put(people, id, [name |-> name, birth |-> birth, movies |-> {}])
    /\ names' = IF Lower(name) \notin DOMAIN names
                THEN Put(names, Lower(name), {id})
                ELSE Put(names, Lower(name), names[Lower(name)] \cup {id})
    /\ UNCHANGED <<pc, movies, warned, search>>

\* one row of people.csv that ends before its name field: DictReader fills the
\* missing fields with None, the record is stored, and None.lower() raises
\* AttributeError out of load_data
LoadShortPeopleRow(id) ==
    /\ pc = "load_people"
    /\ people' = Put(people, id, [name |-> NoName, birth |-> None, movies |-> {}])
    /\ pc' = "load_aborted"
    /\ UNCHANGED <<names, movies, warned, search>>

\* people.csv is exhausted
EndPeople ==
    /\ pc = "load_people"
    /\ pc' = "load_movies"
    /\ UNCHANGED <<store, warned, search>>

\* one row of movies.csv
LoadMovieRow(id, title, year) ==
    /\ pc = "load_movies"
    /\ movies' = Put(movies, id, [title |-> title, year |-> year, stars |-> {}])
    /\ UNCHANGED <<pc, names, people, warned, search>>

\* movies.csv is exhausted
EndMovies ==
    /\ pc = "load_movies"
    /\ pc' = "load_stars"
    /\ UNCHANGED <<store, warned, search>>

\* one row of stars.csv: the two adds run in order inside one try block, so a
\* KeyError of the second leaves the effect of the first in place
LoadStarRow(person_id, movie_id) ==
    /\ pc = "load_stars"
    /\ IF person_id \notin DOMAIN people
       THEN /\ warned' = TRUE
            /\ UNCHANGED <<people, movies>>
       ELSE /\ people' = [people EXCEPT ![person_id].movies = @ \cup {movie_id}]
            /\ IF movie_id \notin DOMAIN movies
               THEN /\ warned' = TRUE
                    /\ UNCHANGED movies
               ELSE /\ movies' = [movies EXCEPT ![movie_id].stars = @ \cup {person_id}]
                    /\ UNCHANGED warned
    /\ UNCHANGED <<pc, names, search>>

\* stars.csv is exhausted: load_data returns
EndStars ==
    /\ pc = "load_stars"
    /\ pc' = "loaded"
    /\ UNCHANGED <<store, warned, search>>

-----------------------------------------------------------------------------
(* util.py: Node and QueueFrontier *)

\* Node(state, parent, action)
Node(state, parent, action) == [state |-> state, parent |-> parent, action |-> action]

\* QueueFrontier.add: append at the end
FrontierAdd(f, h) == Append(f, h)

\* QueueFrontier.empty
FrontierEmpty(f) == Len(f) = 0

\* QueueFrontier.remove: the oldest node, and what stays queued
FrontierRemove(f) == <<Head(f), Tail(f)>>

\* QueueFrontier.remove raises when the frontier is empty
RemoveRaises(f) == Len(f) = 0

\* QueueFrontier.contains_state
ContainsState(f, ns, state) == \E i \in DOMAIN f : ns[f[i]].state = state

-----------------------------------------------------------------------------
(* neighbors_for_person *)

\* movies[movie_id] raises KeyError for a movie id that is no key of movies
\* (people[person_id] for a person id that is no key of people)
NeighborsRaises(person_id) ==
    \/ person_id \notin DOMAIN people
    \/ \E movie_id \in people[person_id].movies : movie_id \notin DOMAIN movies

\* neighbors_for_person with the pairs of the person themself left out
neighbors_without_self(person_id) ==
    UNION {{<<movie_id, q>> : q \in movies[movie_id].stars \ {person_id}} :
           movie_id \in people[person_id].movies}

\* neighbors_for_person with only one movie of the person visited
neighbors_of_one_movie(person_id) ==
    IF people[person_id].movies = {}
    THEN {}
    ELSE LET movie_id == CHOOSE m \in people[person_id].movies : TRUE
         IN  {<<movie_id, q>> : q \in movies[movie_id].stars}

neighbors_for_person(person_id) ==
    UNION {{<<movie_id, q>> : q \in movies[movie_id].stars} :
           movie_id \in people[person_id].movies}

-----------------------------------------------------------------------------
(* shortest_path *)

\* Collect with the walk stopped one node later (while node is not None):
\* the pair of the root is collected too
RECURSIVE CollectWithRoot(_, _)
CollectWithRoot(h, ns) ==
    IF h = NoParent
    THEN <<>>
    ELSE <<<<ns[h].action, ns[h].state>>>> \o CollectWithRoot(ns[h].parent, ns)

\* the pairs collected by walking the parent links, target first
RECURSIVE Collect(_, _)
Collect(h, ns) ==
    IF ns[h].parent = NoParent
    THEN <<>>
    ELSE <<<<ns[h].action, ns[h].state>>>> \o Collect(ns[h].parent, ns)

\* PathTo without path.reverse()
PathToUnreversed(h, ns) == Collect(h, ns)

\* path reconstruction: collect, then reverse
PathTo(h, ns) == Reverse(Collect(h, ns))

\* Unseen without the test against the explored set
UnseenNotQueued(person_id, f, ns, ex) == ~ContainsState(f, ns, person_id)

\* Unseen without the test against the frontier
UnseenNotExplored(person_id, f, ns, ex) == person_id \notin ex

\* the test that guards frontier.add in the for loop
Unseen(person_id, f, ns, ex) ==
    ~ContainsState(f, ns, person_id) /\ person_id \notin ex

\* ForLoop with every child given the root as its parent (parent=start)
RECURSIVE ForLoopFromRoot(_, _, _, _, _)
ForLoopFromRoot(todo, parent, f, ns, ex) ==
    LET adding == {pr \in todo : ~ContainsState(f, ns, pr[2]) /\ pr[2] \notin ex}
    IN  IF adding = {}
        THEN {<<f, ns>>}
        ELSE UNION {ForLoopFromRoot(todo \ {pr}, parent,
                                    FrontierAdd(f, Len(ns) + 1),
                                    Append(ns, Node(pr[2], 1, pr[1])), ex) :
                    pr \in adding}

\* The for loop over the neighbor set, whose iteration order is arbitrary:
\* the set of <<frontier, nodes>> it can end with. An iteration whose pair
\* fails the test changes nothing wherever it falls in the order, so the
\* next iteration that adds a child takes any pair that passes the test now.
RECURSIVE ForLoop(_, _, _, _, _)
ForLoop(todo, parent, f, ns, ex) ==
    LET adding == {pr \in todo : Unseen(pr[2], f, ns, ex)}
    IN  IF adding = {}
        THEN {<<f, ns>>}
        ELSE UNION {ForLoop(todo \ {pr}, parent,
                            FrontierAdd(f, Len(ns) + 1),
                            Append(ns, Node(pr[2], parent, pr[1])), ex) :
                    pr \in adding}

\* lines 116-119: the root node, the frontier holding it, the empty explored set
Start(s, t) ==
    /\ source' = s
    /\ target' = t
    /\ nodes' = <<Node(s, NoParent, None)>>
    /\ frontier' = FrontierAdd(<<>>, 1)
    /\ explored' = {}
    /\ path' = <<>>
    /\ iterations' = 0
    /\ pc' = "searching"

\* shortest_path(s, t) is called on the loaded store
Call(s, t) ==
    /\ pc = "loaded"
    /\ prev' = NoOutcome
    /\ Start(s, t)
    /\ UNCHANGED <<store, warned>>

Finished == pc \in {"found", "exhausted", "raised"}

Outcome == [kind |-> pc, len |-> Len(path)]

\* shortest_path is called once more with the same arguments
CallAgain ==
    /\ Finished
    /\ prev' = Outcome
    /\ Start(source, target)
    /\ UNCHANGED <<store, warned>>

\* ReachesRemove without the emptiness check before frontier.remove()
ReachesRemoveUnchecked(f) == TRUE

\* lines 122-126: a pass gets to frontier.remove() only when frontier.empty()
\* was false, since it returns None otherwise
ReachesRemove(f) == ~FrontierEmpty(f)

\* a pass of the while loop that finds the frontier empty: return None
LoopExhausted ==
    /\ pc = "searching"
    /\ FrontierEmpty(frontier)
    /\ iterations' = iterations + 1
    /\ pc' = "exhausted"
    /\ UNCHANGED <<store, warned, source, target, nodes, frontier, explored, path, prev>>

\* a pass that dequeues a node of the target: return the path
LoopFound ==
    /\ pc = "searching"
    /\ ReachesRemove(frontier)
    /\ ~RemoveRaises(frontier)
    /\ LET node == FrontierRemove(frontier)[1]
       IN  /\ nodes[node].state = target
           /\ path' = PathTo(node, nodes)
    /\ frontier' = FrontierRemove(frontier)[2]
    /\ iterations' = iterations + 1
    /\ pc' = "found"
    /\ UNCHANGED <<store, warned, source, target, nodes, explored, prev>>

\* LoopExpand with the person's movies set consumed by the iteration
\* (movie_ids.pop() in place of a for loop over movie_ids)
LoopExpandDraining ==
    /\ pc = "searching"
    /\ ReachesRemove(frontier)
    /\ ~RemoveRaises(frontier)
    /\ LET node == FrontierRemove(frontier)[1]
           rest == FrontierRemove(frontier)[2]
           state == nodes[node].state
       IN  /\ state # target
           /\ explored' = explored \cup {state}
           /\ ~NeighborsRaises(state)
           /\ \E out \in ForLoop(neighbors_for_person(state), node, rest, nodes,
                                 explored \cup {state}) :
                 /\ frontier' = out[1]
                 /\ nodes' = out[2]
           /\ people' = [people EXCEPT ![state].movies = {}]
    /\ iterations' = iterations + 1
    /\ UNCHANGED <<pc, names, movies, warned, source, target, path, prev>>

\* a pass that dequeues another node, marks it explored and queues its
\* unseen neighbors
LoopExpand ==
    /\ pc = "searching"
    /\ ReachesRemove(frontier)
    /\ ~RemoveRaises(frontier)
    /\ LET node == FrontierRemove(frontier)[1]
           rest == FrontierRemove(frontier)[2]
           state == nodes[node].state
       IN  /\ state # target
           /\ explored' = explored \cup {state}
           /\ ~NeighborsRaises(state)
           /\ \E out \in ForLoop(neighbors_for_person(state), node, rest, nodes,
                                 explored \cup {state}) :
                 /\ frontier' = out[1]
                 /\ nodes' = out[2]
    /\ iterations' = iterations + 1
    /\ UNCHANGED <<pc, store, warned, source, target, path, prev>>

\* a pass that ends with an exception: frontier.remove() raises on an empty
\* frontier, or neighbors_for_person raises KeyError
LoopRaise ==
    /\ pc = "searching"
    /\ ReachesRemove(frontier)
    /\ IF RemoveRaises(frontier)
       THEN /\ pc' = "frontier_error"
            /\ UNCHANGED <<frontier, explored>>
       ELSE /\ LET node == FrontierRemove(frontier)[1]
                   state == nodes[node].state
               IN  /\ state # target
                   /\ explored' = explored \cup {state}
                   /\ NeighborsRaises(state)
            /\ frontier' = FrontierRemove(frontier)[2]
            /\ pc' = "raised"
    /\ iterations' = iterations + 1
    /\ UNCHANGED <<store, warned, source, target, nodes, path, prev>>

-----------------------------------------------------------------------------
(* person_id_for_name and main *)

\* the names of one letter
ShortNames == [1..1 -> Alphabet]

\* what the user can type at the "Intended Person ID: " prompt
TypedIds == PersonIds \cup {"zzz"}

\* names.get(key, set())
NamesGet(key) == IF key \in DOMAIN names THEN names[key] ELSE {}

\* person_id_for_name with the typed id returned unchecked
PersonIdForNameUnchecked(name, typed) ==
    LET person_ids == NamesGet(Lower(name))
    IN  IF Cardinality(person_ids) = 0
        THEN None
        ELSE IF Cardinality(person_ids) > 1
             THEN typed
             ELSE CHOOSE id \in person_ids : TRUE

\* person_id_for_name(name), the user typing typed if asked which person
PersonIdForName(name, typed) ==
    LET person_ids == NamesGet(Lower(name))
    IN  IF Cardinality(person_ids) = 0
        THEN None
        ELSE IF Cardinality(person_ids) > 1
             THEN IF typed \in person_ids THEN typed ELSE None
             ELSE CHOOSE id \in person_ids : TRUE

\* main, lines 78-81: the first name is asked and resolved
AskSource(name, typed) ==
    /\ pc = "loaded"
    /\ source' = PersonIdForName(name, typed)
    /\ pc' = IF PersonIdForName(name, typed) = None THEN "exited" ELSE "asked_source"
    /\ UNCHANGED <<store, warned, target, nodes, frontier, explored, path, iterations, prev>>

\* main, lines 83-86: the second name is asked and resolved
AskTarget(name, typed) ==
    /\ pc = "asked_source"
    /\ target' = PersonIdForName(name, typed)
    /\ pc' = IF PersonIdForName(name, typed) = None THEN "exited" ELSE "asked_target"
    /\ UNCHANGED <<store, warned, source, nodes, frontier, explored, path, iterations, prev>>

\* main, line 89: shortest_path(source, target) is called
MainCall ==
    /\ pc = "asked_target"
    /\ prev' = NoOutcome
    /\ Start(source, target)
    /\ UNCHANGED <<store, warned>>

-----------------------------------------------------------------------------
(* Specifications *)

Load ==
    \/ \E id \in PersonIds : LoadPeopleRow(id, PlainName, "")
    \/ EndPeople
    \/ \E id \in MovieIds : LoadMovieRow(id, Title, Year)
    \/ EndMovies
    \/ \E person_id \in PersonIds, movie_id \in MovieIds : LoadStarRow(person_id, movie_id)
    \/ EndStars

Search ==
    \/ \E s \in DOMAIN people, t \in DOMAIN people : Call(s, t)
    \/ LoopExhausted
    \/ LoopFound
    \/ LoopExpand
    \/ LoopRaise

Next ==
    \/ Load
    \/ Search

\* load_data, then one call of shortest_path
Spec == Init /\ [][Next]_vars

\* the loop runs to completion: nothing suspends a pass of the while loop
SpecFair == Spec /\ WF_vars(LoopExhausted \/ LoopFound \/ LoopExpand \/ LoopRaise)

NextTwice ==
    \/ Next
    \/ CallAgain

\* load_data, then shortest_path called again and again with the same arguments
SpecTwice == Init /\ [][NextTwice]_vars

\* load_data reading people.csv, with names and births of every shape
NextLoad ==
    \/ \E id \in PersonIds, name \in Names, birth \in Births : LoadPeopleRow(id, name, birth)
    \/ \E id \in PersonIds : LoadShortPeopleRow(id)
    \/ EndPeople

SpecLoad == Init /\ [][NextLoad]_vars

\* main up to the call of shortest_path, on people with one-letter names
NextMain ==
    \/ \E id \in PersonIds, name \in ShortNames : LoadPeopleRow(id, name, "")
    \/ EndPeople
    \/ EndMovies
    \/ EndStars
    \/ \E name \in ShortNames, typed \in TypedIds : AskSource(name, typed)
    \/ \E name \in ShortNames, typed \in TypedIds : AskTarget(name, typed)
    \/ MainCall

SpecMain == Init /\ [][NextMain]_vars

-----------------------------------------------------------------------------
(* The person-person graph of the store *)

\* two people are adjacent iff some movie of the movie table stars both
Adjacent(p, q) == \E m \in DOMAIN movies : p \in movies[m].stars /\ q \in movies[m].stars

\* the people at most k hops away from s
RECURSIVE Within(_, _)
Within(s, k) ==
    IF k = 0
    THEN {s}
    ELSE LET near == Within(s, k - 1)
         IN  near \cup {q \in DOMAIN people : \E p \in near : Adjacent(p, q)}

Reachable(s, t) == t \in Within(s, Cardinality(DOMAIN people))

Distance(s, t) ==
    CHOOSE k \in 0..Cardinality(DOMAIN people) :
        /\ t \in Within(s, k)
        /\ k = 0 \/ t \notin Within(s, k - 1)

Returned == pc \in {"found", "exhausted"}

-----------------------------------------------------------------------------
(* Claims *)

\* C1: when the target is reachable from the source, the finished call has
\* returned a list whose length is the graph distance from source to target.
ShortestPathLength ==
    (Finished /\ Reachable(source, target)) =>
        (pc = "found" /\ Len(path) = Distance(source, target))

\* C2: when the target is not reachable from the source, the finished call
\* has returned None, and None is returned only with the frontier empty.
NotConnectedReturnsNone ==
    /\ (Finished /\ ~Reachable(source, target)) => pc = "exhausted"
    /\ pc = "exhausted" => FrontierEmpty(frontier)

\* C3: shortest_path(s, s) returns the empty list on the first pass of the
\* loop without expanding a node, whatever the movies of s.
SameSourceTarget ==
    (Finished /\ source = target) =>
        /\ pc = "found"
        /\ path = <<>>
        /\ iterations = 1
        /\ explored = {}
        /\ Len(nodes) = 1

SameSourceTargetWitness ==
    /\ pc = "found"
    /\ source = target
    /\ \E m \in people[source].movies : m \notin DOMAIN movies
    /\ \E m \in people[source].movies : m \in DOMAIN movies /\ Cardinality(movies[m].stars) > 1

\* C4: a returned list is a chain of the store from source to target: each
\* hop's movie is a key of the movie table that stars the hop's person and
\* the person before it, no movie is None, the last person is the target.
PersonAt(i) == IF i = 0 THEN source ELSE path[i][2]

PathIsChain ==
    pc = "found" =>
        /\ \A i \in 1..Len(path) :
              /\ path[i][1] # None
              /\ path[i][1] \in DOMAIN movies
              /\ PersonAt(i - 1) \in movies[path[i][1]].stars
              /\ PersonAt(i) \in movies[path[i][1]].stars
        /\ PersonAt(Len(path)) = target

PathIsChainWitness ==
    /\ pc = "found"
    /\ Len(path) = 2
    /\ path[1][1] # path[2][1]

\* C5: two calls with the same arguments on the same store end with the same
\* kind of outcome and the same list length.
SameOutcomeEveryRun ==
    (Finished /\ prev.kind # "none") => (prev.kind = pc /\ prev.len = Len(path))

\* C6: a running search eventually ends Found or Exhausted.
SearchEnds == (pc = "searching") ~> Returned

\* C7: the while loop makes at most |people| passes.
IterationBound == iterations <= Cardinality(DOMAIN people)

IterationBoundWitness ==
    /\ pc = "exhausted"
    /\ Cardinality(DOMAIN people) = NumPeople
    /\ iterations = NumPeople

\* C8: after a load that skipped a stars row, a call between two people of
\* the people table ends with a path or None, never with an exception.
SearchAfterSkippedRow == (warned /\ Finished) => Returned

\* C9: the loaded store is referentially consistent.
ReferentialConsistency ==
    pc = "loaded" =>
        /\ \A p \in DOMAIN people : people[p].movies \subseteq DOMAIN movies
        /\ \A m \in DOMAIN movies : movies[m].stars \subseteq DOMAIN people
        /\ \A p \in DOMAIN people, m \in DOMAIN movies :
              m \in people[p].movies <=> p \in movies[m].stars

\* C10: the name index maps each lowercased name to exactly the ids of the
\* stored people whose name lowercases to it, and any other name to no id.
NameIndexExact ==
    \A name \in Names :
        NamesGet(Lower(name)) = {id \in DOMAIN people : Lower(people[id].name) = Lower(name)}

\* C11: a people row without a usable name field is skipped: it never makes
\* load_data abort.
MalformedRowSkipped == pc # "load_aborted"

\* the number of parent links from a node to the root
RECURSIVE Depth(_, _)
Depth(h, ns) == IF ns[h].parent = NoParent THEN 0 ELSE 1 + Depth(ns[h].parent, ns)

\* the node the next pass of the loop dequeues
NextOut(f) == FrontierRemove(f)[1]

DequeuedAtDistance ==
    (pc = "searching" /\ ~FrontierEmpty(frontier)) =>
        Depth(NextOut(frontier), nodes) = Distance(source, nodes[NextOut(frontier)].state)

DequeuedDeeper ==
    (pc = "searching" /\ pc' = "searching" /\ ~FrontierEmpty(frontier) /\ ~FrontierEmpty(frontier')) =>
        Depth(NextOut(frontier), nodes) <= Depth(NextOut(frontier'), nodes')

StateOf(h) == nodes[h].state

FrontierUnseen ==
    \A i \in DOMAIN frontier :
        /\ StateOf(frontier[i]) \notin explored
        /\ \A j \in DOMAIN frontier : i # j => StateOf(frontier[i]) # StateOf(frontier[j])

\* the nodes a pass of the loop creates: none is of an explored state or of
\* the state of a node that was queued when the pass dequeued its node
EnqueuedUnseen ==
    pc = "searching" =>
        \A h \in (Len(nodes) + 1)..Len(nodes') :
            /\ nodes'[h].state \notin explored'
            /\ ~ContainsState(FrontierRemove(frontier)[2], nodes, nodes'[h].state)
            /\ \E i \in DOMAIN frontier' : frontier'[i] = h

\* C13: no queued node has an explored state, and a neighbor is queued only
\* when it is neither explored nor the state of a queued node.
EnqueueDiscipline == []FrontierUnseen /\ [][EnqueuedUnseen]_vars

EnqueueDisciplineWitness ==
    /\ pc = "searching"
    /\ Len(frontier) = 2
    /\ Cardinality(explored) = 1
    /\ \E pr \in neighbors_for_person(source) : pr[2] = source

\* C14: a returned list repeats no person: no hop's person is the person of
\* the hop before it, none is the source, none occurs twice.
NoSelfPairInPath ==
    pc = "found" =>
        \A i \in 1..Len(path) :
            /\ PersonAt(i) # PersonAt(i - 1)
            /\ PersonAt(i) # source
            /\ \A j \in 1..Len(path) : i # j => PersonAt(i) # PersonAt(j)

NoSelfPairInPathWitness ==
    /\ pc = "found"
    /\ Len(path) >= 1
    /\ ~NeighborsRaises(source)
    /\ Cardinality({pr \in neighbors_for_person(source) : pr[2] = source}) = 2

ConsistentStore ==
    /\ \A p \in DOMAIN people : people[p].movies \subseteq DOMAIN movies
    /\ \A m \in DOMAIN movies : movies[m].stars \subseteq DOMAIN people
    /\ \A p \in DOMAIN people, m \in DOMAIN movies :
          m \in people[p].movies <=> p \in movies[m].stars

\* C15: on a referentially consistent store, neighbors_for_person(p) is the
\* set of the pairs (m, q) with m a movie of p and q a star of m, the pair
\* (m, p) included for every movie m of p. (Stated of the store load_data
\* returns, which no later step changes.)
NeighborsExact ==
    (pc = "loaded" /\ ConsistentStore) =>
        \A p \in DOMAIN people :
            /\ neighbors_for_person(p) =
                   {pr \in MovieIds \X PersonIds :
                       pr[1] \in people[p].movies /\ pr[2] \in movies[pr[1]].stars}
            /\ \A m \in people[p].movies : <<m, p>> \in neighbors_for_person(p)

NeighborsExactWitness ==
    /\ pc = "loaded"
    /\ ConsistentStore
    /\ \E p \in DOMAIN people :
          /\ Cardinality(people[p].movies) = 2
          /\ \A m \in people[p].movies : Cardinality(movies[m].stars) >= 2

StoreKept == pc \in {"loaded", "searching"} => UNCHANGED store

\* C16: no step of shortest_path, the calls of neighbors_for_person it makes
\* included, changes the people table, the movie table or the name index.
SearchKeepsStore == [][StoreKept]_vars

SearchKeepsStoreWitness ==
    /\ pc = "exhausted"
    /\ Cardinality(explored) = 2
    /\ \A p \in explored : people[p].movies # {}

\* C17: frontier.remove() is never invoked on an empty frontier: the
\* empty-frontier error is unreachable.
RemoveOnlyNonEmpty == pc # "frontier_error"

RemoveOnlyNonEmptyWitness ==
    /\ pc = "exhausted"
    /\ iterations = 2
    /\ explored = {source}

\* the created nodes form a tree: the root is the node of the source, no two
\* nodes have the same state, and the parent of any other node is a node
\* created before it that has left the frontier and been expanded
NodesTree ==
    pc \in {"searching", "found", "exhausted", "raised"} =>
        /\ nodes[1] = Node(source, NoParent, None)
        /\ \A h \in DOMAIN nodes, g \in DOMAIN nodes : h # g => StateOf(h) # StateOf(g)
        /\ \A h \in 2..Len(nodes) :
              /\ nodes[h].parent \in 1..(h - 1)
              /\ \A i \in DOMAIN frontier : frontier[i] # nodes[h].parent
              /\ StateOf(nodes[h].parent) \in explored
              /\ Depth(h, nodes) = Depth(nodes[h].parent, nodes) + 1

\* a pass of the loop changes no node created before it
NodesKept ==
    pc = "searching" =>
        \A h \in DOMAIN nodes : h \in DOMAIN nodes' /\ nodes'[h] = nodes[h]

\* C18: each person id is the state of at most one node ever created, a
\* node's parent is fixed at creation and was dequeued before, and the
\* parent links lead from every node to the root without a cycle.
ParentLinksFormTree == []NodesTree /\ [][NodesKept]_vars

ParentLinksFormTreeWitness ==
    /\ pc = "searching"
    /\ Len(nodes) = 3
    /\ nodes[3].parent = 2
    /\ frontier = <<3>>

\* the people reachable from s
Component(s) == Within(s, Cardinality(DOMAIN people))

ExploredInComponent ==
    pc \in {"searching", "found", "exhausted", "raised"} =>
        /\ explored \subseteq Component(source)
        /\ target \notin explored
        /\ pc = "exhausted" => explored = Component(source)

\* C20: the explored set holds only people reachable from the source and
\* never the target, and it is the whole component of the source when the
\* call returns None.
ExploredIsComponent == []ExploredInComponent

ExploredIsComponentWitness ==
    /\ pc = "exhausted"
    /\ Cardinality(DOMAIN people) = NumPeople
    /\ Cardinality(Component(source)) = NumPeople - 1
    /\ Distance(source, CHOOSE p \in Component(source) : \A q \in Component(source) :
                             Distance(source, q) <= Distance(source, p)) = NumPeople - 2

LookupResult ==
    \A name \in ShortNames, typed \in TypedIds :
        LET ids == NamesGet(Lower(name))
            r == PersonIdForName(name, typed)
        IN  /\ r = None \/ r \in ids
            /\ ids = {} => r = None
            /\ Cardinality(ids) = 1 => ids = {r}
            /\ Cardinality(ids) > 1 => r = (IF typed \in ids THEN typed ELSE None)

MainExitsOnNone ==
    /\ pc \in {"asked_source", "asked_target", "searching"} => source \in DOMAIN people
    /\ pc \in {"asked_target", "searching"} => target \in DOMAIN people
    /\ pc = "exited" => (source = None \/ target = None) /\ nodes = <<>>
    /\ pc = "searching" => nodes # <<>>

\* C19: person_id_for_name returns None or an id of the index entry of the
\* lowercased name (None for no entry, the id of an entry of one, the typed
\* id of an entry of several if it is one of them), and main exits without
\* a search when a lookup returned None.
NameLookup == LookupResult /\ MainExitsOnNone

NameLookupWitness ==
    /\ pc = "exited"
    /\ source # None
    /\ target = None
    /\ \E name \in ShortNames : Cardinality(NamesGet(Lower(name))) > 1
    /\ \E name \in ShortNames : Cardinality(NamesGet(Lower(name))) = 1

====
